---- MODULE Spec2Model ----
(***************************************************************************)
(* Model of the cinema ticket service: the configuration loaded from the  *)
(* process environment (lib/config.js), the TicketService built on it and *)
(* its purchaseTickets operation (TicketService.js), with the payment and *)
(* seat-reservation collaborators observed through the invocations they   *)
(* receive.                                                                *)
(***************************************************************************)
EXTENDS Integers, Sequences, FiniteSets, TLC

(***************************************************************************)
(* Bounds of the exploration.                                              *)
(***************************************************************************)
\* longest argument list a caller passes to purchaseTickets
MaxReqs == 2
\* largest small quantity a caller puts in one TicketTypeRequest
MaxQty == 2
\* largest integer account id a caller passes
MaxAccountId == 2
MaxCalls == 3

(***************************************************************************)
(* Program constants: the defaults of lib/config.js.                       *)
(***************************************************************************)
DEFAULT_MAX_TICKETS == 25
DEFAULT_PRICE_INFANT == 0
DEFAULT_PRICE_CHILD == 15
DEFAULT_PRICE_ADULT == 25

TicketTypes == {"INFANT", "CHILD", "ADULT"}

NoError == "none"

(***************************************************************************)
(* The messages of the exceptions the program throws.                      *)
(***************************************************************************)
MsgAccount == "Account ID must be a positive integer"
MsgNoRequests == "At least one ticket type request must be provided"
MsgNotRequest == "Invalid ticket type request"
MsgQuantity == "Number of tickets must be greater than zero"
MsgLimit == "Cannot purchase more than ${MAX_TICKETS} tickets at a time"
MsgNoAdult == "Child and Infant tickets cannot be purchased without at least one Adult ticket"
MsgRatio == "Number of Infant tickets cannot exceed the number of Adult tickets (Infants sit on Adult laps)"

MsgEnvInt == "Environment variable must be a valid integer"
MsgCfgMax == "MAX_TICKETS must be a positive integer"
MsgCfgNegative == "Ticket prices must be non-negative"
MsgCfgAdult == "Adult ticket price must be greater than zero"

(***************************************************************************)
(* lib/config.js: the process environment and the Config singleton.        *)
(* An environment variable is a text; "" stands for undefined or ''.       *)
(***************************************************************************)
EnvMaxTickets == {"", "3", "0", "abc"}
EnvPriceInfant == {"", "5", "-1"}
EnvPriceChild == {"", "-1"}
EnvPriceAdult == {"", "0"}
EnvEnforce == {"", "TRUE", "1", "false"}

Environments ==
    [MAX_TICKETS : EnvMaxTickets,
     TICKET_PRICE_INFANT : EnvPriceInfant,
     TICKET_PRICE_CHILD : EnvPriceChild,
     TICKET_PRICE_ADULT : EnvPriceAdult,
     ENFORCE_INFANT_ADULT_RATIO : EnvEnforce]

\* parseInt(value, 10) on the texts of the environments above
parseInt(value) ==
    CASE value = "3" -> [nan |-> FALSE, n |-> 3]
      [] value = "0" -> [nan |-> FALSE, n |-> 0]
      [] value = "5" -> [nan |-> FALSE, n |-> 5]
      [] value = "-1" -> [nan |-> FALSE, n |-> 0 - 1]
      [] OTHER -> [nan |-> TRUE, n |-> 0]

\* String.prototype.toLowerCase on the texts of the environments above
toLowerCase(value) ==
    CASE value = "TRUE" -> "true"
      [] OTHER -> value

getEnvAsInt(value, defaultValue) ==
    IF value = ""
    THEN [error |-> NoError, n |-> defaultValue]
    ELSE LET parsed == parseInt(value)
         IN  IF parsed.nan
             THEN [error |-> MsgEnvInt, n |-> defaultValue]
             ELSE [error |-> NoError, n |-> parsed.n]

getEnvAsBool(value, defaultValue) ==
    IF value = ""
    THEN defaultValue
    ELSE toLowerCase(value) = "true" \/ value = "1"

\* mutant: a free adult ticket is let through
validate_AdultFree(maxTickets, ticketPrices) ==
    IF maxTickets <= 0
    THEN MsgCfgMax
    ELSE IF \/ ticketPrices.INFANT < 0
            \/ ticketPrices.CHILD < 0
            \/ ticketPrices.ADULT < 0
         THEN MsgCfgNegative
         ELSE NoError

validate(maxTickets, ticketPrices) ==
    IF maxTickets <= 0
    THEN MsgCfgMax
    ELSE IF \/ ticketPrices.INFANT < 0
            \/ ticketPrices.CHILD < 0
            \/ ticketPrices.ADULT < 0
         THEN MsgCfgNegative
         ELSE IF ticketPrices.ADULT <= 0
              THEN MsgCfgAdult
              ELSE NoError

\* new Config(): error is the message of the Error the constructor throws,
\* NoError when the singleton is exported
Config(env) ==
    LET max == getEnvAsInt(env.MAX_TICKETS, DEFAULT_MAX_TICKETS)
        infant == getEnvAsInt(env.TICKET_PRICE_INFANT, DEFAULT_PRICE_INFANT)
        child == getEnvAsInt(env.TICKET_PRICE_CHILD, DEFAULT_PRICE_CHILD)
        adult == getEnvAsInt(env.TICKET_PRICE_ADULT, DEFAULT_PRICE_ADULT)
        prices == [INFANT |-> infant.n, CHILD |-> child.n, ADULT |-> adult.n]
        parseError ==
            IF max.error # NoError THEN max.error
            ELSE IF infant.error # NoError THEN infant.error
            ELSE IF child.error # NoError THEN child.error
            ELSE adult.error
    IN  [error |-> IF parseError # NoError
                   THEN parseError
                   ELSE validate(max.n, prices),
         maxTickets |-> max.n,
         ticketPrices |-> prices,
         enforceInfantAdultRatio |->
             getEnvAsBool(env.ENFORCE_INFANT_ADULT_RATIO, TRUE)]

(***************************************************************************)
(* Values a caller can pass.                                               *)
(***************************************************************************)
\* account ids: integers, and the non-integers of the tests: 1.5 (float with
\* integer part n), null and the text 'abc'
AccountIds ==
    [tag : {"int"}, n : (0 - 1)..MaxAccountId]
        \cup {[tag |-> "float", n |-> 1],
              [tag |-> "null", n |-> 0],
              [tag |-> "string", n |-> 0]}

NumberIsInteger(accountId) == accountId.tag = "int"

\* accountId <= 0 under JavaScript's coercion: null is 0, 'abc' is NaN
LessEqZero(accountId) ==
    CASE accountId.tag = "int" -> accountId.n <= 0
      [] accountId.tag = "float" -> accountId.n < 0
      [] accountId.tag = "null" -> TRUE
      [] OTHER -> FALSE

\* quantities a caller asks for: small ones, zero and a negative one among
\* them, and the default maximum with its neighbour
Quantities ==
    ((0 - 1)..MaxQty) \cup {DEFAULT_MAX_TICKETS, DEFAULT_MAX_TICKETS + 1}

\* new TicketTypeRequest(type, noOfTickets): an immutable value
TicketTypeRequest(type, noOfTickets) ==
    [isRequest |-> TRUE, type |-> type, noOfTickets |-> noOfTickets]

\* an argument that is not a TicketTypeRequest: { type: 'ADULT', count: 2 }
NotARequest == [isRequest |-> FALSE, type |-> "ADULT", noOfTickets |-> 2]

InstanceOfTicketTypeRequest(request) == request.isRequest
getTicketType(request) == request.type
getNoOfTickets(request) == request.noOfTickets

(***************************************************************************)
(* TicketService.js (configuration-driven): the private methods.  A method *)
(* that throws yields the message of its InvalidPurchaseException, NoError *)
(* when it returns.                                                        *)
(***************************************************************************)
\* mutant: the integer test is forgotten
validateAccountId_NoIntegerTest(accountId) ==
    IF LessEqZero(accountId)
    THEN MsgAccount
    ELSE NoError

validateAccountId(accountId) ==
    IF ~NumberIsInteger(accountId) \/ LessEqZero(accountId)
    THEN MsgAccount
    ELSE NoError

\* mutant: an empty list is let through
validateTicketRequestsExist_Never(ticketTypeRequests) ==
    NoError

validateTicketRequestsExist(ticketTypeRequests) ==
    IF Len(ticketTypeRequests) = 0
    THEN MsgNoRequests
    ELSE NoError

\* the for loop of #countTicketsByType from item i on
RECURSIVE countLoop(_, _, _)
countLoop(ticketTypeRequests, i, counts) ==
    IF i > Len(ticketTypeRequests)
    THEN [error |-> NoError, counts |-> counts]
    ELSE LET request == ticketTypeRequests[i]
         IN  IF ~InstanceOfTicketTypeRequest(request)
             THEN [error |-> MsgNotRequest, counts |-> counts]
             ELSE LET ticketType == getTicketType(request)
                      numberOfTickets == getNoOfTickets(request)
                  IN  IF numberOfTickets <= 0
                      THEN [error |-> MsgQuantity, counts |-> counts]
                      ELSE countLoop(ticketTypeRequests, i + 1,
                               [counts EXCEPT ![ticketType] = @ + numberOfTickets])

\* mutant: the loop rejects negative quantities only
RECURSIVE countLoop_ZeroAllowed(_, _, _)
countLoop_ZeroAllowed(ticketTypeRequests, i, counts) ==
    IF i > Len(ticketTypeRequests)
    THEN [error |-> NoError, counts |-> counts]
    ELSE LET request == ticketTypeRequests[i]
         IN  IF ~InstanceOfTicketTypeRequest(request)
             THEN [error |-> MsgNotRequest, counts |-> counts]
             ELSE LET ticketType == getTicketType(request)
                      numberOfTickets == getNoOfTickets(request)
                  IN  IF numberOfTickets < 0
                      THEN [error |-> MsgQuantity, counts |-> counts]
                      ELSE countLoop_ZeroAllowed(ticketTypeRequests, i + 1,
                               [counts EXCEPT ![ticketType] = @ + numberOfTickets])

countTicketsByType_ZeroAllowed(ticketTypeRequests) ==
    countLoop_ZeroAllowed(ticketTypeRequests, 1, [t \in TicketTypes |-> 0])

\* mutant: a request overwrites the count of its type
RECURSIVE countLoop_Overwrite(_, _, _)
countLoop_Overwrite(ticketTypeRequests, i, counts) ==
    IF i > Len(ticketTypeRequests)
    THEN [error |-> NoError, counts |-> counts]
    ELSE LET request == ticketTypeRequests[i]
         IN  IF ~InstanceOfTicketTypeRequest(request)
             THEN [error |-> MsgNotRequest, counts |-> counts]
             ELSE LET ticketType == getTicketType(request)
                      numberOfTickets == getNoOfTickets(request)
                  IN  IF numberOfTickets <= 0
                      THEN [error |-> MsgQuantity, counts |-> counts]
                      ELSE countLoop_Overwrite(ticketTypeRequests, i + 1,
                               [counts EXCEPT ![ticketType] = numberOfTickets])

countTicketsByType_Overwrite(ticketTypeRequests) ==
    countLoop_Overwrite(ticketTypeRequests, 1, [t \in TicketTypes |-> 0])

countTicketsByType(ticketTypeRequests) ==
    countLoop(ticketTypeRequests, 1, [t \in TicketTypes |-> 0])

\* mutant: the limit counts the seats, leaving the infants out
validateBusinessRules_SeatsLimit(ticketCounts, MAX_TICKETS, ENFORCE_INFANT_ADULT_RATIO) ==
    LET totalTickets == ticketCounts.CHILD + ticketCounts.ADULT
    IN  IF totalTickets > MAX_TICKETS
        THEN MsgLimit
        ELSE IF /\ (ticketCounts.CHILD > 0 \/ ticketCounts.INFANT > 0)
                /\ ticketCounts.ADULT = 0
             THEN MsgNoAdult
             ELSE IF /\ ENFORCE_INFANT_ADULT_RATIO
                     /\ ticketCounts.INFANT > ticketCounts.ADULT
                  THEN MsgRatio
                  ELSE NoError

\* mutant: the adult rule looks at the children only
validateBusinessRules_ChildOnly(ticketCounts, MAX_TICKETS, ENFORCE_INFANT_ADULT_RATIO) ==
    LET totalTickets ==
            ticketCounts.INFANT + ticketCounts.CHILD + ticketCounts.ADULT
    IN  IF totalTickets > MAX_TICKETS
        THEN MsgLimit
        ELSE IF ticketCounts.CHILD > 0 /\ ticketCounts.ADULT = 0
             THEN MsgNoAdult
             ELSE IF /\ ENFORCE_INFANT_ADULT_RATIO
                     /\ ticketCounts.INFANT > ticketCounts.ADULT
                  THEN MsgRatio
                  ELSE NoError

\* mutant: the ratio rule applies when the flag is off
validateBusinessRules_FlagNegated(ticketCounts, MAX_TICKETS, ENFORCE_INFANT_ADULT_RATIO) ==
    LET totalTickets ==
            ticketCounts.INFANT + ticketCounts.CHILD + ticketCounts.ADULT
    IN  IF totalTickets > MAX_TICKETS
        THEN MsgLimit
        ELSE IF /\ (ticketCounts.CHILD > 0 \/ ticketCounts.INFANT > 0)
                /\ ticketCounts.ADULT = 0
             THEN MsgNoAdult
             ELSE IF /\ ~ENFORCE_INFANT_ADULT_RATIO
                     /\ ticketCounts.INFANT > ticketCounts.ADULT
                  THEN MsgRatio
                  ELSE NoError

\* mutant: the adult rule is evaluated before the limit
validateBusinessRules_AdultFirst(ticketCounts, MAX_TICKETS, ENFORCE_INFANT_ADULT_RATIO) ==
    LET totalTickets ==
            ticketCounts.INFANT + ticketCounts.CHILD + ticketCounts.ADULT
    IN  IF /\ (ticketCounts.CHILD > 0 \/ ticketCounts.INFANT > 0)
           /\ ticketCounts.ADULT = 0
        THEN MsgNoAdult
        ELSE IF totalTickets > MAX_TICKETS
             THEN MsgLimit
             ELSE IF /\ ENFORCE_INFANT_ADULT_RATIO
                     /\ ticketCounts.INFANT > ticketCounts.ADULT
                  THEN MsgRatio
                  ELSE NoError

\* mutant: the ratio rule is applied whatever the flag says
validateBusinessRules_RatioAlways(ticketCounts, MAX_TICKETS, ENFORCE_INFANT_ADULT_RATIO) ==
    LET totalTickets ==
            ticketCounts.INFANT + ticketCounts.CHILD + ticketCounts.ADULT
    IN  IF totalTickets > MAX_TICKETS
        THEN MsgLimit
        ELSE IF /\ (ticketCounts.CHILD > 0 \/ ticketCounts.INFANT > 0)
                /\ ticketCounts.ADULT = 0
             THEN MsgNoAdult
             ELSE IF ticketCounts.INFANT > ticketCounts.ADULT
                  THEN MsgRatio
                  ELSE NoError

\* mutant: the limit refuses a total equal to the maximum
validateBusinessRules_LimitInclusive(ticketCounts, MAX_TICKETS, ENFORCE_INFANT_ADULT_RATIO) ==
    LET totalTickets ==
            ticketCounts.INFANT + ticketCounts.CHILD + ticketCounts.ADULT
    IN  IF totalTickets >= MAX_TICKETS
        THEN MsgLimit
        ELSE IF /\ (ticketCounts.CHILD > 0 \/ ticketCounts.INFANT > 0)
                /\ ticketCounts.ADULT = 0
             THEN MsgNoAdult
             ELSE IF /\ ENFORCE_INFANT_ADULT_RATIO
                     /\ ticketCounts.INFANT > ticketCounts.ADULT
                  THEN MsgRatio
                  ELSE NoError

\* mutant: the ratio rule refuses as many infants as adults
validateBusinessRules_RatioInclusive(ticketCounts, MAX_TICKETS, ENFORCE_INFANT_ADULT_RATIO) ==
    LET totalTickets ==
            ticketCounts.INFANT + ticketCounts.CHILD + ticketCounts.ADULT
    IN  IF totalTickets > MAX_TICKETS
        THEN MsgLimit
        ELSE IF /\ (ticketCounts.CHILD > 0 \/ ticketCounts.INFANT > 0)
                /\ ticketCounts.ADULT = 0
             THEN MsgNoAdult
             ELSE IF /\ ENFORCE_INFANT_ADULT_RATIO
                     /\ ticketCounts.INFANT >= ticketCounts.ADULT
                  THEN MsgRatio
                  ELSE NoError

\* mutant: no rule asks for an adult
validateBusinessRules_NoAdultRule(ticketCounts, MAX_TICKETS, ENFORCE_INFANT_ADULT_RATIO) ==
    LET totalTickets ==
            ticketCounts.INFANT + ticketCounts.CHILD + ticketCounts.ADULT
    IN  IF totalTickets > MAX_TICKETS
        THEN MsgLimit
        ELSE IF /\ ENFORCE_INFANT_ADULT_RATIO
                /\ ticketCounts.INFANT > ticketCounts.ADULT
             THEN MsgRatio
             ELSE NoError

\* mutant: the limit is applied to each category by itself
validateBusinessRules_LimitPerCategory(ticketCounts, MAX_TICKETS, ENFORCE_INFANT_ADULT_RATIO) ==
    IF \E t \in TicketTypes : ticketCounts[t] > MAX_TICKETS
    THEN MsgLimit
    ELSE IF /\ (ticketCounts.CHILD > 0 \/ ticketCounts.INFANT > 0)
            /\ ticketCounts.ADULT = 0
         THEN MsgNoAdult
         ELSE IF /\ ENFORCE_INFANT_ADULT_RATIO
                 /\ ticketCounts.INFANT > ticketCounts.ADULT
              THEN MsgRatio
              ELSE NoError

validateBusinessRules(ticketCounts, MAX_TICKETS, ENFORCE_INFANT_ADULT_RATIO) ==
    LET totalTickets ==
            ticketCounts.INFANT + ticketCounts.CHILD + ticketCounts.ADULT
    IN  IF totalTickets > MAX_TICKETS
        THEN MsgLimit
        ELSE IF /\ (ticketCounts.CHILD > 0 \/ ticketCounts.INFANT > 0)
                /\ ticketCounts.ADULT = 0
             THEN MsgNoAdult
             ELSE IF /\ ENFORCE_INFANT_ADULT_RATIO
                     /\ ticketCounts.INFANT > ticketCounts.ADULT
                  THEN MsgRatio
                  ELSE NoError

\* mutant: the infants are taken to be free and left out of the sum
calculateTotalAmount_NoInfants(ticketCounts, TICKET_PRICES) ==
    ticketCounts.CHILD * TICKET_PRICES.CHILD
        + ticketCounts.ADULT * TICKET_PRICES.ADULT

calculateTotalAmount(ticketCounts, TICKET_PRICES) ==
    ticketCounts.INFANT * TICKET_PRICES.INFANT
        + ticketCounts.CHILD * TICKET_PRICES.CHILD
        + ticketCounts.ADULT * TICKET_PRICES.ADULT

\* mutant: every ticket gets a seat
calculateTotalSeats_AllTickets(ticketCounts) ==
    ticketCounts.INFANT + ticketCounts.CHILD + ticketCounts.ADULT

calculateTotalSeats(ticketCounts) ==
    ticketCounts.CHILD + ticketCounts.ADULT

(***************************************************************************)
(* The outcome of a call and the invocations it makes.                     *)
(***************************************************************************)
Returned == [threw |-> "nothing", message |-> NoError]
InvalidPurchaseException(message) ==
    [threw |-> "InvalidPurchaseException", message |-> message]
\* whatever a collaborator throws propagates as it is
CollaboratorFailure(method) ==
    [threw |-> "collaborator", message |-> method]
NotCalled == [threw |-> "nothing", message |-> "not called"]

\* an invocation of a collaborator that returned
Invocation(method, accountId, arg) ==
    [method |-> method, accountId |-> accountId, arg |-> arg, threw |-> FALSE]

\* the same invocation when the collaborator threw
Thrown(invocation) == [invocation EXCEPT !.threw = TRUE]

\* what the collaborators do in a call: both return, or one of them throws
CollaboratorBehaviours == {"return", "makePayment throws", "reserveSeat throws"}

\* mutant: the payment is made before the business rules are validated
\* mutant: a failure of makePayment is caught and the seats are reserved
\* all the same
purchaseTickets_CatchPayment(svc, accountId, ticketTypeRequests, collaborators) ==
    LET accountError == validateAccountId(accountId)
        existError == validateTicketRequestsExist(ticketTypeRequests)
        counted == countTicketsByType(ticketTypeRequests)
        ticketCounts == counted.counts
        ruleError == validateBusinessRules(ticketCounts, svc.MAX_TICKETS,
                         svc.ENFORCE_INFANT_ADULT_RATIO)
        totalAmount == calculateTotalAmount(ticketCounts, svc.TICKET_PRICES)
        totalSeats == calculateTotalSeats(ticketCounts)
        payment == Invocation("makePayment", accountId, totalAmount)
        reservation == Invocation("reserveSeat", accountId, totalSeats)
    IN  IF accountError # NoError
        THEN [outcome |-> InvalidPurchaseException(accountError),
              invocations |-> << >>]
        ELSE IF existError # NoError
        THEN [outcome |-> InvalidPurchaseException(existError),
              invocations |-> << >>]
        ELSE IF counted.error # NoError
        THEN [outcome |-> InvalidPurchaseException(counted.error),
              invocations |-> << >>]
        ELSE IF ruleError # NoError
        THEN [outcome |-> InvalidPurchaseException(ruleError),
              invocations |-> << >>]
        ELSE IF collaborators = "makePayment throws"
        THEN [outcome |-> Returned,
              invocations |-> <<Thrown(payment), reservation>>]
        ELSE IF collaborators = "reserveSeat throws"
        THEN [outcome |-> CollaboratorFailure("reserveSeat"),
              invocations |-> <<payment, Thrown(reservation)>>]
        ELSE [outcome |-> Returned,
              invocations |-> <<payment, reservation>>]

\* mutant: a failure of reserveSeat is followed by a refund of the payment
purchaseTickets_Refund(svc, accountId, ticketTypeRequests, collaborators) ==
    LET accountError == validateAccountId(accountId)
        existError == validateTicketRequestsExist(ticketTypeRequests)
        counted == countTicketsByType(ticketTypeRequests)
        ticketCounts == counted.counts
        ruleError == validateBusinessRules(ticketCounts, svc.MAX_TICKETS,
                         svc.ENFORCE_INFANT_ADULT_RATIO)
        totalAmount == calculateTotalAmount(ticketCounts, svc.TICKET_PRICES)
        totalSeats == calculateTotalSeats(ticketCounts)
        payment == Invocation("makePayment", accountId, totalAmount)
        reservation == Invocation("reserveSeat", accountId, totalSeats)
    IN  IF accountError # NoError
        THEN [outcome |-> InvalidPurchaseException(accountError),
              invocations |-> << >>]
        ELSE IF existError # NoError
        THEN [outcome |-> InvalidPurchaseException(existError),
              invocations |-> << >>]
        ELSE IF counted.error # NoError
        THEN [outcome |-> InvalidPurchaseException(counted.error),
              invocations |-> << >>]
        ELSE IF ruleError # NoError
        THEN [outcome |-> InvalidPurchaseException(ruleError),
              invocations |-> << >>]
        ELSE IF collaborators = "makePayment throws"
        THEN [outcome |-> CollaboratorFailure("makePayment"),
              invocations |-> <<Thrown(payment)>>]
        ELSE IF collaborators = "reserveSeat throws"
        THEN [outcome |-> CollaboratorFailure("reserveSeat"),
              invocations |->
                  <<payment, Thrown(reservation),
                    Invocation("makePayment", accountId, 0 - totalAmount)>>]
        ELSE [outcome |-> Returned,
              invocations |-> <<payment, reservation>>]

\* mutant: the seats are reserved before the payment is made
purchaseTickets_ReserveFirst(svc, accountId, ticketTypeRequests, collaborators) ==
    LET accountError == validateAccountId(accountId)
        existError == validateTicketRequestsExist(ticketTypeRequests)
        counted == countTicketsByType(ticketTypeRequests)
        ticketCounts == counted.counts
        ruleError == validateBusinessRules(ticketCounts, svc.MAX_TICKETS,
                         svc.ENFORCE_INFANT_ADULT_RATIO)
        totalAmount == calculateTotalAmount(ticketCounts, svc.TICKET_PRICES)
        totalSeats == calculateTotalSeats(ticketCounts)
        payment == Invocation("makePayment", accountId, totalAmount)
        reservation == Invocation("reserveSeat", accountId, totalSeats)
    IN  IF accountError # NoError
        THEN [outcome |-> InvalidPurchaseException(accountError),
              invocations |-> << >>]
        ELSE IF existError # NoError
        THEN [outcome |-> InvalidPurchaseException(existError),
              invocations |-> << >>]
        ELSE IF counted.error # NoError
        THEN [outcome |-> InvalidPurchaseException(counted.error),
              invocations |-> << >>]
        ELSE IF ruleError # NoError
        THEN [outcome |-> InvalidPurchaseException(ruleError),
              invocations |-> << >>]
        ELSE IF collaborators = "reserveSeat throws"
        THEN [outcome |-> CollaboratorFailure("reserveSeat"),
              invocations |-> <<Thrown(reservation)>>]
        ELSE IF collaborators = "makePayment throws"
        THEN [outcome |-> CollaboratorFailure("makePayment"),
              invocations |-> <<reservation, Thrown(payment)>>]
        ELSE [outcome |-> Returned,
              invocations |-> <<reservation, payment>>]

\* mutant: a payment is made for every request of the list
purchaseTickets_PayPerRequest(svc, accountId, ticketTypeRequests, collaborators) ==
    LET accountError == validateAccountId(accountId)
        existError == validateTicketRequestsExist(ticketTypeRequests)
        counted == countTicketsByType(ticketTypeRequests)
        ticketCounts == counted.counts
        ruleError == validateBusinessRules(ticketCounts, svc.MAX_TICKETS,
                         svc.ENFORCE_INFANT_ADULT_RATIO)
        totalSeats == calculateTotalSeats(ticketCounts)
        payments ==
            [i \in 1..Len(ticketTypeRequests) |->
                Invocation("makePayment", accountId,
                    ticketTypeRequests[i].noOfTickets
                        * svc.TICKET_PRICES[ticketTypeRequests[i].type])]
        reservation == Invocation("reserveSeat", accountId, totalSeats)
    IN  IF accountError # NoError
        THEN [outcome |-> InvalidPurchaseException(accountError),
              invocations |-> << >>]
        ELSE IF existError # NoError
        THEN [outcome |-> InvalidPurchaseException(existError),
              invocations |-> << >>]
        ELSE IF counted.error # NoError
        THEN [outcome |-> InvalidPurchaseException(counted.error),
              invocations |-> << >>]
        ELSE IF ruleError # NoError
        THEN [outcome |-> InvalidPurchaseException(ruleError),
              invocations |-> << >>]
        ELSE IF collaborators = "makePayment throws"
        THEN [outcome |-> CollaboratorFailure("makePayment"),
              invocations |-> <<Thrown(payments[1])>>]
        ELSE IF collaborators = "reserveSeat throws"
        THEN [outcome |-> CollaboratorFailure("reserveSeat"),
              invocations |-> payments \o <<Thrown(reservation)>>]
        ELSE [outcome |-> Returned,
              invocations |-> payments \o <<reservation>>]

\* mutant: the business rules are checked inside the loop, on the counts of
\* the requests seen so far
RECURSIVE rulesPerItem(_, _, _)
rulesPerItem(svc, ticketTypeRequests, k) ==
    IF k > Len(ticketTypeRequests)
    THEN NoError
    ELSE LET counted == countTicketsByType(SubSeq(ticketTypeRequests, 1, k))
             error ==
                 IF counted.error # NoError
                 THEN counted.error
                 ELSE validateBusinessRules(counted.counts, svc.MAX_TICKETS,
                          svc.ENFORCE_INFANT_ADULT_RATIO)
         IN  IF error # NoError
             THEN error
             ELSE rulesPerItem(svc, ticketTypeRequests, k + 1)

purchaseTickets_RulesPerItem(svc, accountId, ticketTypeRequests, collaborators) ==
    LET accountError == validateAccountId(accountId)
        existError == validateTicketRequestsExist(ticketTypeRequests)
        counted == countTicketsByType(ticketTypeRequests)
        ticketCounts == counted.counts
        itemError == rulesPerItem(svc, ticketTypeRequests, 1)
        totalAmount == calculateTotalAmount(ticketCounts, svc.TICKET_PRICES)
        totalSeats == calculateTotalSeats(ticketCounts)
        payment == Invocation("makePayment", accountId, totalAmount)
        reservation == Invocation("reserveSeat", accountId, totalSeats)
    IN  IF accountError # NoError
        THEN [outcome |-> InvalidPurchaseException(accountError),
              invocations |-> << >>]
        ELSE IF existError # NoError
        THEN [outcome |-> InvalidPurchaseException(existError),
              invocations |-> << >>]
        ELSE IF itemError # NoError
        THEN [outcome |-> InvalidPurchaseException(itemError),
              invocations |-> << >>]
        ELSE IF collaborators = "makePayment throws"
        THEN [outcome |-> CollaboratorFailure("makePayment"),
              invocations |-> <<Thrown(payment)>>]
        ELSE IF collaborators = "reserveSeat throws"
        THEN [outcome |-> CollaboratorFailure("reserveSeat"),
              invocations |-> <<payment, Thrown(reservation)>>]
        ELSE [outcome |-> Returned,
              invocations |-> <<payment, reservation>>]

purchaseTickets_PayFirst(svc, accountId, ticketTypeRequests, collaborators) ==
    LET accountError == validateAccountId(accountId)
        existError == validateTicketRequestsExist(ticketTypeRequests)
        counted == countTicketsByType(ticketTypeRequests)
        ticketCounts == counted.counts
        ruleError == validateBusinessRules(ticketCounts, svc.MAX_TICKETS,
                         svc.ENFORCE_INFANT_ADULT_RATIO)
        totalAmount == calculateTotalAmount(ticketCounts, svc.TICKET_PRICES)
        totalSeats == calculateTotalSeats(ticketCounts)
        payment == Invocation("makePayment", accountId, totalAmount)
        reservation == Invocation("reserveSeat", accountId, totalSeats)
    IN  IF accountError # NoError
        THEN [outcome |-> InvalidPurchaseException(accountError),
              invocations |-> << >>]
        ELSE IF existError # NoError
        THEN [outcome |-> InvalidPurchaseException(existError),
              invocations |-> << >>]
        ELSE IF counted.error # NoError
        THEN [outcome |-> InvalidPurchaseException(counted.error),
              invocations |-> << >>]
        ELSE IF collaborators = "makePayment throws"
        THEN [outcome |-> CollaboratorFailure("makePayment"),
              invocations |-> <<Thrown(payment)>>]
        ELSE IF ruleError # NoError
        THEN [outcome |-> InvalidPurchaseException(ruleError),
              invocations |-> <<payment>>]
        ELSE IF collaborators = "reserveSeat throws"
        THEN [outcome |-> CollaboratorFailure("reserveSeat"),
              invocations |-> <<payment, Thrown(reservation)>>]
        ELSE [outcome |-> Returned,
              invocations |-> <<payment, reservation>>]

\* mutant: the seats are reserved with the seat count in the place of the
\* account id
purchaseTickets_SeatsForAccount(svc, accountId, ticketTypeRequests, collaborators) ==
    LET accountError == validateAccountId(accountId)
        existError == validateTicketRequestsExist(ticketTypeRequests)
        counted == countTicketsByType(ticketTypeRequests)
        ticketCounts == counted.counts
        ruleError == validateBusinessRules(ticketCounts, svc.MAX_TICKETS,
                         svc.ENFORCE_INFANT_ADULT_RATIO)
        totalAmount == calculateTotalAmount(ticketCounts, svc.TICKET_PRICES)
        totalSeats == calculateTotalSeats(ticketCounts)
        payment == Invocation("makePayment", accountId, totalAmount)
        reservation ==
            Invocation("reserveSeat", [tag |-> "int", n |-> totalSeats], totalSeats)
    IN  IF accountError # NoError
        THEN [outcome |-> InvalidPurchaseException(accountError),
              invocations |-> << >>]
        ELSE IF existError # NoError
        THEN [outcome |-> InvalidPurchaseException(existError),
              invocations |-> << >>]
        ELSE IF counted.error # NoError
        THEN [outcome |-> InvalidPurchaseException(counted.error),
              invocations |-> << >>]
        ELSE IF ruleError # NoError
        THEN [outcome |-> InvalidPurchaseException(ruleError),
              invocations |-> << >>]
        ELSE IF collaborators = "makePayment throws"
        THEN [outcome |-> CollaboratorFailure("makePayment"),
              invocations |-> <<Thrown(payment)>>]
        ELSE IF collaborators = "reserveSeat throws"
        THEN [outcome |-> CollaboratorFailure("reserveSeat"),
              invocations |-> <<payment, Thrown(reservation)>>]
        ELSE [outcome |-> Returned,
              invocations |-> <<payment, reservation>>]

\* TicketService.purchaseTickets on a service with the fields svc, with
\* collaborators behaving as collaborators says
purchaseTickets(svc, accountId, ticketTypeRequests, collaborators) ==
    LET accountError == validateAccountId(accountId)
        existError == validateTicketRequestsExist(ticketTypeRequests)
        counted == countTicketsByType(ticketTypeRequests)
        ticketCounts == counted.counts
        ruleError == validateBusinessRules(ticketCounts, svc.MAX_TICKETS,
                         svc.ENFORCE_INFANT_ADULT_RATIO)
        totalAmount == calculateTotalAmount(ticketCounts, svc.TICKET_PRICES)
        totalSeats == calculateTotalSeats(ticketCounts)
        payment == Invocation("makePayment", accountId, totalAmount)
        reservation == Invocation("reserveSeat", accountId, totalSeats)
    IN  IF accountError # NoError
        THEN [outcome |-> InvalidPurchaseException(accountError),
              invocations |-> << >>]
        ELSE IF existError # NoError
        THEN [outcome |-> InvalidPurchaseException(existError),
              invocations |-> << >>]
        ELSE IF counted.error # NoError
        THEN [outcome |-> InvalidPurchaseException(counted.error),
              invocations |-> << >>]
        ELSE IF ruleError # NoError
        THEN [outcome |-> InvalidPurchaseException(ruleError),
              invocations |-> << >>]
        ELSE IF collaborators = "makePayment throws"
        THEN [outcome |-> CollaboratorFailure("makePayment"),
              invocations |-> <<Thrown(payment)>>]
        ELSE IF collaborators = "reserveSeat throws"
        THEN [outcome |-> CollaboratorFailure("reserveSeat"),
              invocations |-> <<payment, Thrown(reservation)>>]
        ELSE [outcome |-> Returned,
              invocations |-> <<payment, reservation>>]

(***************************************************************************)
(* TicketService.js (hard-coded constants): the class of the lines 6-157,  *)
(* with its prices and its maximum as private field initialisers.          *)
(***************************************************************************)
HardCoded_TICKET_PRICES == [INFANT |-> 0, CHILD |-> 15, ADULT |-> 25]
HardCoded_MAX_TICKETS == 25

HardCoded_validateAccountId(accountId) ==
    IF ~NumberIsInteger(accountId) \/ LessEqZero(accountId)
    THEN MsgAccount
    ELSE NoError

HardCoded_validateTicketRequestsExist(ticketTypeRequests) ==
    IF Len(ticketTypeRequests) = 0
    THEN MsgNoRequests
    ELSE NoError

RECURSIVE HardCoded_countLoop(_, _, _)
HardCoded_countLoop(ticketTypeRequests, i, counts) ==
    IF i > Len(ticketTypeRequests)
    THEN [error |-> NoError, counts |-> counts]
    ELSE LET request == ticketTypeRequests[i]
         IN  IF ~InstanceOfTicketTypeRequest(request)
             THEN [error |-> MsgNotRequest, counts |-> counts]
             ELSE LET ticketType == getTicketType(request)
                      numberOfTickets == getNoOfTickets(request)
                  IN  IF numberOfTickets <= 0
                      THEN [error |-> MsgQuantity, counts |-> counts]
                      ELSE HardCoded_countLoop(ticketTypeRequests, i + 1,
                               [counts EXCEPT ![ticketType] = @ + numberOfTickets])

HardCoded_countTicketsByType(ticketTypeRequests) ==
    HardCoded_countLoop(ticketTypeRequests, 1, [t \in TicketTypes |-> 0])

\* mutant: the class has the two rules of the exercise and no ratio rule
HardCoded_validateBusinessRules_NoRatio(ticketCounts) ==
    LET totalTickets ==
            ticketCounts.INFANT + ticketCounts.CHILD + ticketCounts.ADULT
    IN  IF totalTickets > HardCoded_MAX_TICKETS
        THEN MsgLimit
        ELSE IF /\ (ticketCounts.CHILD > 0 \/ ticketCounts.INFANT > 0)
                /\ ticketCounts.ADULT = 0
             THEN MsgNoAdult
             ELSE NoError

HardCoded_validateBusinessRules(ticketCounts) ==
    LET totalTickets ==
            ticketCounts.INFANT + ticketCounts.CHILD + ticketCounts.ADULT
    IN  IF totalTickets > HardCoded_MAX_TICKETS
        THEN MsgLimit
        ELSE IF /\ (ticketCounts.CHILD > 0 \/ ticketCounts.INFANT > 0)
                /\ ticketCounts.ADULT = 0
             THEN MsgNoAdult
             ELSE IF ticketCounts.INFANT > ticketCounts.ADULT
                  THEN MsgRatio
                  ELSE NoError

HardCoded_calculateTotalAmount(ticketCounts) ==
    ticketCounts.INFANT * HardCoded_TICKET_PRICES.INFANT
        + ticketCounts.CHILD * HardCoded_TICKET_PRICES.CHILD
        + ticketCounts.ADULT * HardCoded_TICKET_PRICES.ADULT

HardCoded_calculateTotalSeats(ticketCounts) ==
    ticketCounts.CHILD + ticketCounts.ADULT

HardCoded_purchaseTickets(accountId, ticketTypeRequests, collaborators) ==
    LET accountError == HardCoded_validateAccountId(accountId)
        existError == HardCoded_validateTicketRequestsExist(ticketTypeRequests)
        counted == HardCoded_countTicketsByType(ticketTypeRequests)
        ticketCounts == counted.counts
        ruleError == HardCoded_validateBusinessRules(ticketCounts)
        totalAmount == HardCoded_calculateTotalAmount(ticketCounts)
        totalSeats == HardCoded_calculateTotalSeats(ticketCounts)
        payment == Invocation("makePayment", accountId, totalAmount)
        reservation == Invocation("reserveSeat", accountId, totalSeats)
    IN  IF accountError # NoError
        THEN [outcome |-> InvalidPurchaseException(accountError),
              invocations |-> << >>]
        ELSE IF existError # NoError
        THEN [outcome |-> InvalidPurchaseException(existError),
              invocations |-> << >>]
        ELSE IF counted.error # NoError
        THEN [outcome |-> InvalidPurchaseException(counted.error),
              invocations |-> << >>]
        ELSE IF ruleError # NoError
        THEN [outcome |-> InvalidPurchaseException(ruleError),
              invocations |-> << >>]
        ELSE IF collaborators = "makePayment throws"
        THEN [outcome |-> CollaboratorFailure("makePayment"),
              invocations |-> <<Thrown(payment)>>]
        ELSE IF collaborators = "reserveSeat throws"
        THEN [outcome |-> CollaboratorFailure("reserveSeat"),
              invocations |-> <<payment, Thrown(reservation)>>]
        ELSE [outcome |-> Returned,
              invocations |-> <<payment, reservation>>]

\* mutant: the service keeps what is left of its maximum after a sale
fieldsAfterPurchase_Remaining(svc, accountId, ticketTypeRequests) ==
    LET counted == countTicketsByType(ticketTypeRequests)
        sold == counted.counts.INFANT + counted.counts.CHILD + counted.counts.ADULT
        passes ==
            /\ validateAccountId(accountId) = NoError
            /\ validateTicketRequestsExist(ticketTypeRequests) = NoError
            /\ counted.error = NoError
            /\ validateBusinessRules(counted.counts, svc.MAX_TICKETS,
                   svc.ENFORCE_INFANT_ADULT_RATIO) = NoError
    IN  IF passes
        THEN [svc EXCEPT !.MAX_TICKETS = @ - sold]
        ELSE svc

\* the private fields of the service after purchaseTickets: the method and
\* its helpers assign none of them, the counts are a local of the call
fieldsAfterPurchase(svc, accountId, ticketTypeRequests) ==
    svc

\* mutant: the zero-priced requests are dropped from the caller's list
requestsAfterPurchase_Filtered(ticketTypeRequests) ==
    SelectSeq(ticketTypeRequests, LAMBDA r : r.type # "INFANT")

\* the request objects after purchaseTickets: the method only reads them,
\* through getTicketType and getNoOfTickets
requestsAfterPurchase(ticketTypeRequests) ==
    ticketTypeRequests

(***************************************************************************)
(* State.                                                                  *)
(***************************************************************************)
VARIABLES
    config,       \* the Config singleton, or the error its loading threw
    service,      \* the private fields of the TicketService
    args,         \* the argument list the caller has built
    called,       \* whether purchaseTickets has been called on args
    accountId,    \* the account id of that call
    outcome,      \* what that call returned or threw
    invocations,  \* the collaborator invocations of that call, in order
    servicesSeen, \* history: the values the service's fields have had
    frames,       \* the activations of purchaseTickets that are under way
    callLog       \* the calls finished on the service, in order

vars ==
    <<config, service, args, called, accountId, outcome, invocations,
      servicesSeen, frames, callLog>>

\* the two activations of purchaseTickets on one service
Calls == {1, 2}

\* the locals of an activation before their statements have run
NoCounts == [t \in TicketTypes |-> 0]

\* no activation: purchaseTickets has not been entered
IdleFrame ==
    [pc |-> "idle",
     accountId |-> [tag |-> "null", n |-> 0],
     ticketTypeRequests |-> << >>,
     collaborators |-> "return",
     ticketCounts |-> NoCounts,
     totalAmount |-> 0,
     totalSeats |-> 0,
     outcome |-> NotCalled,
     invocations |-> << >>]

NoAccount == [tag |-> "null", n |-> 0]

\* new TicketService(paymentService, seatReservationService)
TicketService(cfg) ==
    [constructed |-> cfg.error = NoError,
     TICKET_PRICES |-> cfg.ticketPrices,
     MAX_TICKETS |-> cfg.maxTickets,
     ENFORCE_INFANT_ADULT_RATIO |-> cfg.enforceInfantAdultRatio]

Init ==
    /\ \E env \in Environments : config = Config(env)
    /\ service = TicketService(config)
    /\ args = << >>
    /\ called = FALSE
    /\ accountId = NoAccount
    /\ outcome = NotCalled
    /\ invocations = << >>
    /\ servicesSeen = {service}
    /\ frames = [c \in Calls |-> IdleFrame]
    /\ callLog = << >>

\* the caller builds one more request for the call it prepares
NewTicketTypeRequest ==
    /\ service.constructed
    /\ ~called
    /\ Len(args) < MaxReqs
    /\ \E type \in TicketTypes, noOfTickets \in Quantities :
           args' = Append(args, TicketTypeRequest(type, noOfTickets))
    /\ UNCHANGED <<config, service, called, accountId, outcome, invocations,
                   servicesSeen, frames, callLog>>

\* the caller puts something that is not a TicketTypeRequest in the list
PassNotARequest ==
    /\ service.constructed
    /\ ~called
    /\ Len(args) < MaxReqs
    /\ args' = Append(args, NotARequest)
    /\ UNCHANGED <<config, service, called, accountId, outcome, invocations,
                   servicesSeen, frames, callLog>>

\* ticketService.purchaseTickets(id, ...args)
PurchaseTickets ==
    /\ service.constructed
    /\ \E id \in AccountIds, collaborators \in CollaboratorBehaviours :
           LET result == purchaseTickets(service, id, args, collaborators)
           IN  /\ accountId' = id
               /\ outcome' = result.outcome
               /\ invocations' = result.invocations
               /\ service' = fieldsAfterPurchase(service, id, args)
    /\ args' = requestsAfterPurchase(args)
    /\ called' = TRUE
    /\ servicesSeen' = servicesSeen \cup {service'}
    /\ UNCHANGED <<config, frames, callLog>>

\* the caller turns to its next call
NextCall ==
    /\ called
    /\ args' = << >>
    /\ called' = FALSE
    /\ accountId' = NoAccount
    /\ outcome' = NotCalled
    /\ invocations' = << >>
    /\ UNCHANGED <<config, service, servicesSeen, frames, callLog>>

Next ==
    \/ NewTicketTypeRequest
    \/ PassNotARequest
    \/ PurchaseTickets
    \/ NextCall

Spec == Init /\ [][Next]_vars

(***************************************************************************)
(* Two activations of purchaseTickets on one service, statement by         *)
(* statement.  Each activation has its own parameters and locals           *)
(* (ticketCounts, totalAmount, totalSeats); the fields of the service are  *)
(* shared and only read.                                                   *)
(***************************************************************************)

\* the environments the two activations are run under
InterleavedEnvironments ==
    {[MAX_TICKETS |-> "", TICKET_PRICE_INFANT |-> "", TICKET_PRICE_CHILD |-> "",
      TICKET_PRICE_ADULT |-> "", ENFORCE_INFANT_ADULT_RATIO |-> ""],
     [MAX_TICKETS |-> "3", TICKET_PRICE_INFANT |-> "5", TICKET_PRICE_CHILD |-> "",
      TICKET_PRICE_ADULT |-> "", ENFORCE_INFANT_ADULT_RATIO |-> "false"]}

\* the account ids and argument lists the two callers pass
InterleavedAccountIds ==
    {[tag |-> "int", n |-> 0], [tag |-> "int", n |-> 1], [tag |-> "int", n |-> 2]}

InterleavedRequests ==
    {<< >>,
     <<TicketTypeRequest("ADULT", 1)>>,
     <<TicketTypeRequest("ADULT", 1), TicketTypeRequest("INFANT", 2)>>,
     <<TicketTypeRequest("CHILD", 1)>>,
     <<TicketTypeRequest("ADULT", 2), TicketTypeRequest("CHILD", 2)>>,
     <<TicketTypeRequest("ADULT", 1), NotARequest>>}

\* purchaseTickets(accountId, ...ticketTypeRequests) is entered
EnteredFrame(accountId_, ticketTypeRequests, collaborators) ==
    [IdleFrame EXCEPT !.pc = "validateAccountId",
                      !.accountId = accountId_,
                      !.ticketTypeRequests = ticketTypeRequests,
                      !.collaborators = collaborators]

InitInterleaved ==
    /\ \E env \in InterleavedEnvironments : config = Config(env)
    /\ service = TicketService(config)
    /\ args = << >>
    /\ called = FALSE
    /\ accountId = NoAccount
    /\ outcome = NotCalled
    /\ invocations = << >>
    /\ servicesSeen = {service}
    /\ callLog = << >>
    /\ frames \in [Calls -> {EnteredFrame(id, requests, collaborators) :
                                id \in InterleavedAccountIds,
                                requests \in InterleavedRequests,
                                collaborators \in CollaboratorBehaviours}]

\* a statement of activation c throws message, or returns and control goes
\* to the statement next
afterValidation(c, message, next) ==
    IF message # NoError
    THEN [frames EXCEPT ![c].pc = "done",
                        ![c].outcome = InvalidPurchaseException(message)]
    ELSE [frames EXCEPT ![c].pc = next]

\* mutant: the counts are kept in a field of the service, which every
\* activation reads
ticketCountsBound_Shared(c, counts) ==
    [d \in Calls |->
        [frames[d] EXCEPT !.ticketCounts = counts,
                          !.pc = IF d = c THEN "validateBusinessRules" ELSE @]]

\* const ticketCounts = ...: the counts are bound to a local of activation c
ticketCountsBound(c, counts) ==
    [frames EXCEPT ![c].ticketCounts = counts,
                   ![c].pc = "validateBusinessRules"]

\* this.#validateAccountId(accountId);
ValidateAccountId(c) ==
    /\ frames[c].pc = "validateAccountId"
    /\ frames' = afterValidation(c, validateAccountId(frames[c].accountId),
                                 "validateTicketRequestsExist")
    /\ UNCHANGED <<config, service, args, called, accountId, outcome,
                   invocations, servicesSeen, callLog>>

\* this.#validateTicketRequestsExist(ticketTypeRequests);
ValidateTicketRequestsExist(c) ==
    /\ frames[c].pc = "validateTicketRequestsExist"
    /\ frames' = afterValidation(c,
                     validateTicketRequestsExist(frames[c].ticketTypeRequests),
                     "countTicketsByType")
    /\ UNCHANGED <<config, service, args, called, accountId, outcome,
                   invocations, servicesSeen, callLog>>

\* const ticketCounts = this.#countTicketsByType(ticketTypeRequests);
CountTicketsByType(c) ==
    /\ frames[c].pc = "countTicketsByType"
    /\ LET counted == countTicketsByType(frames[c].ticketTypeRequests)
       IN  frames' = IF counted.error # NoError
                     THEN afterValidation(c, counted.error, "done")
                     ELSE ticketCountsBound(c, counted.counts)
    /\ UNCHANGED <<config, service, args, called, accountId, outcome,
                   invocations, servicesSeen, callLog>>

\* this.#validateBusinessRules(ticketCounts);
ValidateBusinessRules(c) ==
    /\ frames[c].pc = "validateBusinessRules"
    /\ frames' = afterValidation(c,
                     validateBusinessRules(frames[c].ticketCounts,
                         service.MAX_TICKETS,
                         service.ENFORCE_INFANT_ADULT_RATIO),
                     "calculateTotalAmount")
    /\ UNCHANGED <<config, service, args, called, accountId, outcome,
                   invocations, servicesSeen, callLog>>

\* const totalAmount = this.#calculateTotalAmount(ticketCounts);
CalculateTotalAmount(c) ==
    /\ frames[c].pc = "calculateTotalAmount"
    /\ frames' = [frames EXCEPT
           ![c].totalAmount = calculateTotalAmount(frames[c].ticketCounts,
                                                   service.TICKET_PRICES),
           ![c].pc = "calculateTotalSeats"]
    /\ UNCHANGED <<config, service, args, called, accountId, outcome,
                   invocations, servicesSeen, callLog>>

\* const totalSeats = this.#calculateTotalSeats(ticketCounts);
CalculateTotalSeats(c) ==
    /\ frames[c].pc = "calculateTotalSeats"
    /\ frames' = [frames EXCEPT
           ![c].totalSeats = calculateTotalSeats(frames[c].ticketCounts),
           ![c].pc = "makePayment"]
    /\ UNCHANGED <<config, service, args, called, accountId, outcome,
                   invocations, servicesSeen, callLog>>

\* this.#paymentService.makePayment(accountId, totalAmount);
MakePayment(c) ==
    /\ frames[c].pc = "makePayment"
    /\ LET payment == Invocation("makePayment", frames[c].accountId,
                                 frames[c].totalAmount)
       IN  frames' =
               IF frames[c].collaborators = "makePayment throws"
               THEN [frames EXCEPT
                        ![c].invocations = Append(@, Thrown(payment)),
                        ![c].outcome = CollaboratorFailure("makePayment"),
                        ![c].pc = "done"]
               ELSE [frames EXCEPT
                        ![c].invocations = Append(@, payment),
                        ![c].pc = "reserveSeat"]
    /\ UNCHANGED <<config, service, args, called, accountId, outcome,
                   invocations, servicesSeen, callLog>>

\* this.#seatReservationService.reserveSeat(accountId, totalSeats);
ReserveSeat(c) ==
    /\ frames[c].pc = "reserveSeat"
    /\ LET reservation == Invocation("reserveSeat", frames[c].accountId,
                                     frames[c].totalSeats)
       IN  frames' =
               IF frames[c].collaborators = "reserveSeat throws"
               THEN [frames EXCEPT
                        ![c].invocations = Append(@, Thrown(reservation)),
                        ![c].outcome = CollaboratorFailure("reserveSeat"),
                        ![c].pc = "done"]
               ELSE [frames EXCEPT
                        ![c].invocations = Append(@, reservation),
                        ![c].outcome = Returned,
                        ![c].pc = "done"]
    /\ UNCHANGED <<config, service, args, called, accountId, outcome,
                   invocations, servicesSeen, callLog>>

NextInterleaved ==
    \E c \in Calls :
        \/ ValidateAccountId(c)
        \/ ValidateTicketRequestsExist(c)
        \/ CountTicketsByType(c)
        \/ ValidateBusinessRules(c)
        \/ CalculateTotalAmount(c)
        \/ CalculateTotalSeats(c)
        \/ MakePayment(c)
        \/ ReserveSeat(c)

SpecInterleaved == InitInterleaved /\ [][NextInterleaved]_vars

(***************************************************************************)
(* A sequence of purchaseTickets calls on one service, each logged with    *)
(* the invocations it made of the two collaborators.                       *)
(***************************************************************************)

\* the account ids and argument lists of the calls of the sequence
SequenceAccountIds ==
    {[tag |-> "int", n |-> 0], [tag |-> "int", n |-> 1], [tag |-> "int", n |-> 2]}

SequenceRequests ==
    {<<TicketTypeRequest("ADULT", 1)>>,
     <<TicketTypeRequest("CHILD", 1)>>,
     <<TicketTypeRequest("ADULT", 2), TicketTypeRequest("CHILD", 2)>>}

InitSequence ==
    /\ \E env \in InterleavedEnvironments : config = Config(env)
    /\ service = TicketService(config)
    /\ args = << >>
    /\ called = FALSE
    /\ accountId = NoAccount
    /\ outcome = NotCalled
    /\ invocations = << >>
    /\ servicesSeen = {service}
    /\ frames = [c \in Calls |-> IdleFrame]
    /\ callLog = << >>

\* ticketService.purchaseTickets(id, ...requests), the next call of the
\* sequence
PurchaseTicketsInSequence ==
    /\ service.constructed
    /\ Len(callLog) < MaxCalls
    /\ \E id \in SequenceAccountIds, requests \in SequenceRequests,
          collaborators \in CollaboratorBehaviours :
           LET result == purchaseTickets(service, id, requests, collaborators)
           IN  /\ callLog' = Append(callLog,
                                 [accountId |-> id,
                                  outcome |-> result.outcome,
                                  invocations |-> result.invocations])
               /\ service' = fieldsAfterPurchase(service, id, requests)
    /\ servicesSeen' = servicesSeen \cup {service'}
    /\ UNCHANGED <<config, args, called, accountId, outcome, invocations,
                   frames>>

NextSequence == PurchaseTicketsInSequence

SpecSequence == InitSequence /\ [][NextSequence]_vars

(***************************************************************************)
(* Vocabulary of the properties, stated on the arguments of the call and   *)
(* on what the collaborators saw, apart from the service's own methods.    *)
(***************************************************************************)
\* the sum of the quantities the requests of one category ask for
RECURSIVE SumQty(_, _)
SumQty(requests, type) ==
    IF requests = << >>
    THEN 0
    ELSE (IF Head(requests).isRequest /\ Head(requests).type = type
          THEN Head(requests).noOfTickets
          ELSE 0) + SumQty(Tail(requests), type)

Adults == SumQty(args, "ADULT")
Children == SumQty(args, "CHILD")
Infants == SumQty(args, "INFANT")
TotalQty == Adults + Children + Infants

PositiveInteger(id) == id.tag = "int" /\ id.n >= 1

\* an item that is a ticket request with a quantity > 0
ValidItem(item) == item.isRequest /\ item.noOfTickets >= 1

\* the input constraints hold: a valid account and a non-empty list of valid items
InputsValid ==
    /\ PositiveInteger(accountId)
    /\ Len(args) >= 1
    /\ \A i \in 1..Len(args) : ValidItem(args[i])

\* the reason a failed validation reports, in the words of the specification
Reason(message) ==
    CASE message = MsgAccount -> "InvalidAccount"
      [] message = MsgNoRequests -> "NoRequests"
      [] message = MsgNotRequest -> "InvalidRequest"
      [] message = MsgQuantity -> "InvalidRequest"
      [] message = MsgLimit -> "LimitExceeded"
      [] message = MsgNoAdult -> "MissingAdult"
      [] message = MsgRatio -> "InfantRatioExceeded"
      [] OTHER -> "none"

FailedValidation == called /\ outcome.threw = "InvalidPurchaseException"
PassedValidation == called /\ outcome.threw # "InvalidPurchaseException"
FailsWith(reason) == FailedValidation /\ Reason(outcome.message) = reason

InvocationsOf(method) ==
    {i \in 1..Len(invocations) : invocations[i].method = method}

(***************************************************************************)
(* C1: in every call that passes validation the payment collaborator is    *)
(* invoked with the amount Infants x infant price + Children x child price *)
(* + Adults x adult price, the counts being the sums over the requests of  *)
(* the call and the prices the configured ones.                            *)
(***************************************************************************)
C1_PaymentAmount ==
    PassedValidation =>
        /\ InvocationsOf("makePayment") # {}
        /\ \A i \in InvocationsOf("makePayment") :
               invocations[i].arg =
                   Infants * config.ticketPrices.INFANT
                       + Children * config.ticketPrices.CHILD
                       + Adults * config.ticketPrices.ADULT

\* two adults and one infant at the infant price 5: 2 x 25 + 1 x 5
C1_Witness ==
    /\ PassedValidation
    /\ args = <<TicketTypeRequest("ADULT", 2), TicketTypeRequest("INFANT", 1)>>
    /\ config.ticketPrices.INFANT = 5
    /\ invocations[1] = Invocation("makePayment", accountId, 55)

(***************************************************************************)
(* C2: in every call that passes validation (the payment returning) the    *)
(* seat-reservation collaborator is invoked with Adults + Children seats;  *)
(* the infants never count.                                                *)
(***************************************************************************)
C2_SeatCount ==
    (PassedValidation /\ outcome # CollaboratorFailure("makePayment")) =>
        /\ InvocationsOf("reserveSeat") # {}
        /\ \A i \in InvocationsOf("reserveSeat") :
               invocations[i].arg = Adults + Children

\* two adults with two infants on their laps: two seats
C2_Witness ==
    /\ outcome = Returned
    /\ called
    /\ args = <<TicketTypeRequest("INFANT", 2), TicketTypeRequest("ADULT", 2)>>
    /\ invocations[2] = Invocation("reserveSeat", accountId, 2)

(***************************************************************************)
(* C3: a call that fails validation, for whichever reason, invokes neither *)
(* the payment nor the seat-reservation collaborator.                      *)
(***************************************************************************)
C3_NoInvocationOnFailure ==
    FailedValidation => invocations = << >>

\* one adult with two infants under the ratio rule: refused, nothing invoked
C3_Witness ==
    /\ FailsWith("InfantRatioExceeded")
    /\ accountId = [tag |-> "int", n |-> 1]
    /\ args = <<TicketTypeRequest("ADULT", 1), TicketTypeRequest("INFANT", 2)>>
    /\ config.enforceInfantAdultRatio
    /\ invocations = << >>

(***************************************************************************)
(* C4: a call that passes validation and whose collaborators return        *)
(* invokes makePayment exactly once and reserveSeat exactly once, each     *)
(* with the account id passed to the call.                                 *)
(***************************************************************************)
C4_OnceEachWithAccount ==
    (called /\ outcome = Returned) =>
        /\ Cardinality(InvocationsOf("makePayment")) = 1
        /\ Cardinality(InvocationsOf("reserveSeat")) = 1
        /\ Len(invocations) = 2
        /\ \A i \in 1..Len(invocations) : invocations[i].accountId = accountId

\* account 2 buys one adult ticket
C4_Witness ==
    /\ called
    /\ outcome = Returned
    /\ accountId = [tag |-> "int", n |-> 2]
    /\ args = <<TicketTypeRequest("ADULT", 1)>>
    /\ Len(invocations) = 2

(***************************************************************************)
(* C5: a call whose account id is not a positive integer (zero, negative,  *)
(* a fraction, null, a text) fails with InvalidAccount, whatever the       *)
(* request list is.                                                        *)
(***************************************************************************)
C5_InvalidAccount ==
    (called /\ ~PositiveInteger(accountId)) =>
        outcome = InvalidPurchaseException(MsgAccount)

\* the text 'abc' as account with a list holding something that is no request
C5_Witness ==
    /\ called
    /\ accountId.tag = "string"
    /\ args = <<NotARequest>>
    /\ FailsWith("InvalidAccount")

(***************************************************************************)
(* C6: a call with a valid account id and an empty request list fails with *)
(* NoRequests.                                                             *)
(***************************************************************************)
C6_NoRequests ==
    (called /\ PositiveInteger(accountId) /\ args = << >>) =>
        outcome = InvalidPurchaseException(MsgNoRequests)

C6_Witness ==
    /\ called
    /\ accountId = [tag |-> "int", n |-> 1]
    /\ args = << >>
    /\ FailsWith("NoRequests")

(***************************************************************************)
(* C7: a call with a valid account id and a non-empty list in which some   *)
(* item is no ticket request or has a quantity <= 0 fails with             *)
(* InvalidRequest, wherever the item is and whatever the others are.       *)
(***************************************************************************)
C7_InvalidRequest ==
    (/\ called
     /\ PositiveInteger(accountId)
     /\ \E i \in 1..Len(args) : ~ValidItem(args[i])) =>
        FailsWith("InvalidRequest")

\* a negative quantity in the last place, after a request that breaks the
\* limit
C7_Witness ==
    /\ called
    /\ PositiveInteger(accountId)
    /\ args = <<TicketTypeRequest("ADULT", 26), TicketTypeRequest("CHILD", 0 - 1)>>
    /\ outcome = InvalidPurchaseException(MsgQuantity)

(***************************************************************************)
(* C8: for every request set (valid items, valid account) whose total      *)
(* quantity, infants included, is greater than the configured maximum the  *)
(* call fails with LimitExceeded, whatever the mix of categories.          *)
(***************************************************************************)
C8_LimitExceeded ==
    (called /\ InputsValid /\ TotalQty > config.maxTickets) =>
        FailsWith("LimitExceeded")

\* two adults and two infants against a maximum of 3
C8_Witness ==
    /\ called
    /\ InputsValid
    /\ config.maxTickets = 3
    /\ Adults = 2
    /\ Infants = 2
    /\ FailsWith("LimitExceeded")

(***************************************************************************)
(* C9, as stated: for every request set with Children or Infants > 0 and   *)
(* no Adults the call fails with MissingAdult.                             *)
(***************************************************************************)
C9_Original ==
    (called /\ InputsValid /\ (Children > 0 \/ Infants > 0) /\ Adults = 0) =>
        FailsWith("MissingAdult")

(***************************************************************************)
(* C9, amended: for every request set with Children or Infants > 0, no     *)
(* Adults and a total quantity within the configured maximum the call      *)
(* fails with MissingAdult.                                                *)
(***************************************************************************)
C9_MissingAdult ==
    (/\ called
     /\ InputsValid
     /\ (Children > 0 \/ Infants > 0)
     /\ Adults = 0
     /\ TotalQty <= config.maxTickets) =>
        FailsWith("MissingAdult")

\* one infant alone
C9_Witness ==
    /\ called
    /\ InputsValid
    /\ args = <<TicketTypeRequest("INFANT", 1)>>
    /\ FailsWith("MissingAdult")

(***************************************************************************)
(* C10, as stated: with the ratio rule enabled, for every request set with *)
(* Infants > Adults the call fails with InfantRatioExceeded.               *)
(***************************************************************************)
C10_Original ==
    (/\ called
     /\ InputsValid
     /\ config.enforceInfantAdultRatio
     /\ Infants > Adults) =>
        FailsWith("InfantRatioExceeded")

(***************************************************************************)
(* C10, amended: with the ratio rule enabled, for every request set with   *)
(* Infants > Adults, at least one Adult and a total quantity within the    *)
(* configured maximum the call fails with InfantRatioExceeded.             *)
(***************************************************************************)
C10_InfantRatioExceeded ==
    (/\ called
     /\ InputsValid
     /\ config.enforceInfantAdultRatio
     /\ Infants > Adults
     /\ Adults >= 1
     /\ TotalQty <= config.maxTickets) =>
        FailsWith("InfantRatioExceeded")

\* one adult and two infants, within the maximum
C10_Witness ==
    /\ called
    /\ InputsValid
    /\ config.enforceInfantAdultRatio
    /\ Adults = 1
    /\ Infants = 2
    /\ TotalQty <= config.maxTickets
    /\ outcome = InvalidPurchaseException(MsgRatio)

(***************************************************************************)
(* The first check a call violates, in the order of the specification:     *)
(* account, presence of requests, every item, limit, adult, infant ratio.  *)
(***************************************************************************)
FirstViolated(cfg, id, requests) ==
    LET adults == SumQty(requests, "ADULT")
        children == SumQty(requests, "CHILD")
        infants == SumQty(requests, "INFANT")
    IN  IF ~PositiveInteger(id)
        THEN "InvalidAccount"
        ELSE IF requests = << >>
        THEN "NoRequests"
        ELSE IF \E i \in 1..Len(requests) : ~ValidItem(requests[i])
        THEN "InvalidRequest"
        ELSE IF adults + children + infants > cfg.maxTickets
        THEN "LimitExceeded"
        ELSE IF (children > 0 \/ infants > 0) /\ adults = 0
        THEN "MissingAdult"
        ELSE IF cfg.enforceInfantAdultRatio /\ infants > adults
        THEN "InfantRatioExceeded"
        ELSE "none"

(***************************************************************************)
(* C11: a failing call reports one reason, the first violated check in the *)
(* order InvalidAccount, NoRequests, InvalidRequest (over all items),      *)
(* LimitExceeded, MissingAdult, InfantRatioExceeded; a later check is      *)
(* never reported when an earlier one is violated.                         *)
(***************************************************************************)
C11_FirstViolatedReported ==
    called =>
        /\ FailedValidation <=> FirstViolated(config, accountId, args) # "none"
        /\ FailedValidation =>
               Reason(outcome.message) = FirstViolated(config, accountId, args)

\* 26 Child tickets and no Adult break the limit and the adult rule: the
\* limit is reported
C11_Witness ==
    /\ called
    /\ PositiveInteger(accountId)
    /\ args = <<TicketTypeRequest("CHILD", 26)>>
    /\ config.maxTickets = 25
    /\ outcome = InvalidPurchaseException(MsgLimit)

(***************************************************************************)
(* What the collaborators did in the call just made, read from the         *)
(* invocations they received.                                              *)
(***************************************************************************)
BehaviourSeen ==
    IF \E i \in 1..Len(invocations) :
           invocations[i].threw /\ invocations[i].method = "makePayment"
    THEN "makePayment throws"
    ELSE IF \E i \in 1..Len(invocations) :
                invocations[i].threw /\ invocations[i].method = "reserveSeat"
         THEN "reserveSeat throws"
         ELSE "return"

\* the list with the requests at i and j, of one category, replaced by a
\* single request for the sum of their quantities, at i
Merged(requests, i, j) ==
    LET single == TicketTypeRequest(requests[i].type,
                      requests[i].noOfTickets + requests[j].noOfTickets)
        replaced == [requests EXCEPT ![i] = single]
    IN  SubSeq(replaced, 1, j - 1) \o SubSeq(replaced, j + 1, Len(replaced))

(***************************************************************************)
(* C12: the quantities of several requests of one category are summed:     *)
(* replacing two requests (c, m) and (c, n) of a call by the single        *)
(* request (c, m + n) yields the same outcome, the same error reason or    *)
(* the same payment amount and seat count.                                 *)
(***************************************************************************)
C12_SameCategorySummed ==
    called =>
        \A i \in 1..Len(args), j \in 1..Len(args) :
            (/\ i < j
             /\ ValidItem(args[i])
             /\ ValidItem(args[j])
             /\ args[i].type = args[j].type) =>
                LET single == purchaseTickets(service, accountId,
                                  Merged(args, i, j), BehaviourSeen)
                IN  /\ single.outcome = outcome
                    /\ single.invocations = invocations

\* one Adult and two Adults are paid and seated as three Adults
C12_Witness ==
    /\ called
    /\ outcome = Returned
    /\ args = <<TicketTypeRequest("ADULT", 1), TicketTypeRequest("ADULT", 2)>>
    /\ invocations[1].arg = 3 * config.ticketPrices.ADULT
    /\ invocations[2].arg = 3

\* the call passed validation and made the invocations its collaborators
\* allowed: the payment, and the reservation unless the payment threw
Succeeds ==
    /\ PassedValidation
    /\ InvocationsOf("makePayment") # {}
    /\ BehaviourSeen # "makePayment throws" => InvocationsOf("reserveSeat") # {}
    /\ BehaviourSeen = "return" => outcome = Returned

C14_TotalAtMaximum ==
    (/\ called
     /\ InputsValid
     /\ TotalQty = config.maxTickets
     /\ Adults >= 1
     /\ Infants <= Adults) =>
        Succeeds

\* 25 Adult tickets under the default maximum
C14_Witness ==
    /\ called
    /\ config.maxTickets = 25
    /\ args = <<TicketTypeRequest("ADULT", 25)>>
    /\ outcome = Returned
    /\ invocations[2].arg = 25

(***************************************************************************)
(* C15: with the ratio rule enabled, a request set with Infants = Adults   *)
(* >= 1 and a total within the maximum is accepted; the ratio rule refuses *)
(* only Infants strictly greater than Adults.                              *)
(***************************************************************************)
C15_RatioStrict ==
    /\ (/\ called
        /\ InputsValid
        /\ config.enforceInfantAdultRatio
        /\ Infants = Adults
        /\ Adults >= 1
        /\ TotalQty <= config.maxTickets) =>
           Succeeds
    /\ FailsWith("InfantRatioExceeded") => Infants > Adults

\* one adult with one infant, the flag being on
C15_Witness ==
    /\ called
    /\ config.enforceInfantAdultRatio
    /\ args = <<TicketTypeRequest("ADULT", 1), TicketTypeRequest("INFANT", 1)>>
    /\ outcome = Returned

C17_CallChangesNothing ==
    [][called' =>
           /\ config' = config
           /\ service' = service
           /\ args' = args]_vars

\* a successful purchase with an infant, the service as it was built
C17_Witness ==
    /\ called
    /\ outcome = Returned
    /\ Infants = 1
    /\ service = TicketService(config)
    /\ servicesSeen = {service}

(***************************************************************************)
(* C18: when makePayment fails on a call that passed validation, the       *)
(* failure leaves purchaseTickets as the collaborator threw it, and that   *)
(* one makePayment is the only invocation of the call: no second           *)
(* makePayment, no reserveSeat.                                            *)
(***************************************************************************)
C18_PaymentFailurePropagates ==
    (/\ called
     /\ \E i \in DOMAIN invocations :
            invocations[i].method = "makePayment" /\ invocations[i].threw)
        => /\ outcome = CollaboratorFailure("makePayment")
           /\ Cardinality(InvocationsOf("makePayment")) = 1
           /\ Cardinality(InvocationsOf("reserveSeat")) = 0

\* two adults, and the payment of twice the adult price fails
C18_Witness ==
    /\ called
    /\ InputsValid
    /\ Adults = 2
    /\ TotalQty = 2
    /\ outcome = CollaboratorFailure("makePayment")
    /\ invocations = <<Thrown(Invocation("makePayment", accountId,
                                         2 * service.TICKET_PRICES["ADULT"]))>>

(***************************************************************************)
(* C19: when reserveSeat fails after the payment was made, the failure     *)
(* leaves purchaseTickets as the collaborator threw it; the reservation is *)
(* not tried again and the payment is not undone: the call's invocations   *)
(* are the one completed makePayment and the one failed reserveSeat.       *)
(***************************************************************************)
C19_ReservationFailurePropagates ==
    (/\ called
     /\ \E i \in DOMAIN invocations :
            invocations[i].method = "reserveSeat" /\ invocations[i].threw)
        => /\ outcome = CollaboratorFailure("reserveSeat")
           /\ Len(invocations) = 2
           /\ invocations[1].method = "makePayment"
           /\ ~invocations[1].threw
           /\ invocations[1].arg =
                  calculateTotalAmount(
                      [t \in TicketTypes |-> SumQty(args, t)],
                      service.TICKET_PRICES)
           /\ invocations[2].method = "reserveSeat"
           /\ invocations[2].threw

\* an adult and a child are paid for, and the reservation of 2 seats fails
C19_Witness ==
    /\ called
    /\ Adults = 1
    /\ Children = 1
    /\ Infants = 0
    /\ outcome = CollaboratorFailure("reserveSeat")
    /\ Len(invocations) = 2
    /\ ~invocations[1].threw
    /\ invocations[2] = Thrown(Invocation("reserveSeat", accountId, 2))

(***************************************************************************)
(* C20: when the statements of two purchaseTickets calls on one service    *)
(* interleave in any order, each call ends with the outcome and the        *)
(* collaborator invocations (same arguments, same order) that the call     *)
(* has when it runs alone.                                                 *)
(***************************************************************************)
C20_InterleavingIrrelevant ==
    \A c \in Calls :
        frames[c].pc = "done" =>
            LET alone == purchaseTickets(service, frames[c].accountId,
                             frames[c].ticketTypeRequests,
                             frames[c].collaborators)
            IN  /\ frames[c].outcome = alone.outcome
                /\ frames[c].invocations = alone.invocations

\* call 1 has paid for and reserved its one seat while call 2, which has
\* counted an adult and two infants, is still to check its rules
C20_Witness ==
    /\ frames[1].pc = "done"
    /\ frames[1].outcome = Returned
    /\ frames[1].ticketCounts.INFANT = 0
    /\ Len(frames[1].invocations) = 2
    /\ frames[2].pc = "validateBusinessRules"
    /\ frames[2].ticketCounts.INFANT = 2
    /\ frames[1].accountId # frames[2].accountId

(***************************************************************************)
(* C21: every call that passes validation holds at least one ticket and at *)
(* least one Adult ticket; hence every reserveSeat invocation carries a    *)
(* seat count >= 1 and every makePayment invocation an amount >= the Adult *)
(* unit price, which is > 0.                                               *)
(***************************************************************************)
C21_AdultInEverySale ==
    PassedValidation =>
        /\ TotalQty >= 1
        /\ Adults >= 1
        /\ service.TICKET_PRICES["ADULT"] > 0
        /\ \A i \in InvocationsOf("reserveSeat") : invocations[i].arg >= 1
        /\ \A i \in InvocationsOf("makePayment") :
               invocations[i].arg >= service.TICKET_PRICES["ADULT"]

\* the smallest sale: one adult, paid at the adult price, one seat
C21_Witness ==
    /\ called
    /\ outcome = Returned
    /\ Adults = 1
    /\ TotalQty = 1
    /\ invocations[1].arg = service.TICKET_PRICES["ADULT"]
    /\ invocations[2].arg = 1

(***************************************************************************)
(* C22: in every successful call the payment collaborator is invoked       *)
(* before the seat-reservation collaborator, and no reservation is ever    *)
(* made in a call whose payment has not been invoked, and returned, first. *)
(***************************************************************************)
C22_PaymentBeforeReservation ==
    /\ \A i \in InvocationsOf("reserveSeat") :
           \E j \in InvocationsOf("makePayment") :
               j < i /\ ~invocations[j].threw
    /\ (called /\ outcome = Returned) =>
           /\ InvocationsOf("makePayment") = {1}
           /\ InvocationsOf("reserveSeat") = {2}

\* two adults and a child: the payment first, then the three seats
C22_Witness ==
    /\ called
    /\ outcome = Returned
    /\ Adults = 2
    /\ Children = 1
    /\ invocations[1].method = "makePayment"
    /\ invocations[2] = Invocation("reserveSeat", accountId, 3)

\* the three conditions on a configuration
Acceptable(maxTickets, ticketPrices) ==
    /\ maxTickets > 0
    /\ \A t \in TicketTypes : ticketPrices[t] >= 0
    /\ ticketPrices["ADULT"] > 0

(***************************************************************************)
(* C23: a configuration is accepted only if its maximum is > 0, every unit *)
(* price is >= 0 and the Adult price is > 0; otherwise loading fails with  *)
(* an error and no service is built on it, so every purchaseTickets call   *)
(* runs on a service whose fields satisfy the three conditions.            *)
(***************************************************************************)
C23_ConfigValidated ==
    /\ config.error = NoError =>
           Acceptable(config.maxTickets, config.ticketPrices)
    /\ config.error # NoError =>
           ~service.constructed /\ ~called /\ args = << >>
    /\ called =>
           /\ config.error = NoError
           /\ service.constructed
           /\ Acceptable(service.MAX_TICKETS, service.TICKET_PRICES)

\* a call on a service built on an accepted configuration that is not the
\* default one: maximum 3, infants at 5
C23_Witness ==
    /\ called
    /\ outcome = Returned
    /\ service.MAX_TICKETS = 3
    /\ service.TICKET_PRICES["INFANT"] = 5
    /\ Infants = 1

\* the invocations of a collaborator over the calls of a log, in order
RECURSIVE LoggedInvocations(_, _)
LoggedInvocations(log, method) ==
    IF log = << >>
    THEN << >>
    ELSE SelectSeq(Head(log).invocations, LAMBDA v : v.method = method)
             \o LoggedInvocations(Tail(log), method)

\* the calls of the log that passed validation
ValidatedCalls ==
    {i \in 1..Len(callLog) :
        callLog[i].outcome.threw # "InvalidPurchaseException"}

(***************************************************************************)
(* C24: after any sequence of purchaseTickets calls on one service in      *)
(* which no collaborator failed, there are as many makePayment invocations *)
(* as reserveSeat invocations as calls that passed validation, and the     *)
(* i-th payment and the i-th reservation carry the same account id.        *)
(***************************************************************************)
C24_PaymentsMatchReservations ==
    LET payments == LoggedInvocations(callLog, "makePayment")
        reservations == LoggedInvocations(callLog, "reserveSeat")
    IN  (\A i \in 1..Len(callLog) : callLog[i].outcome.threw # "collaborator")
            => /\ Len(payments) = Cardinality(ValidatedCalls)
               /\ Len(reservations) = Cardinality(ValidatedCalls)
               /\ \A i \in 1..Len(payments) :
                      payments[i].accountId = reservations[i].accountId

\* three calls: a sale to account 1, a refused call, a sale to account 2
C24_Witness ==
    /\ Len(callLog) = 3
    /\ callLog[1].outcome = Returned
    /\ callLog[1].accountId.n = 1
    /\ callLog[2].outcome.threw = "InvalidPurchaseException"
    /\ callLog[3].outcome = Returned
    /\ callLog[3].accountId.n = 2
    /\ Len(LoggedInvocations(callLog, "reserveSeat")) = 2

\* the largest of the unit prices
LargestPrice(ticketPrices) ==
    CHOOSE p \in {ticketPrices[t] : t \in TicketTypes} :
        \A t \in TicketTypes : ticketPrices[t] <= p

(***************************************************************************)
(* C25: in every successful call the seat count is <= the total ticket     *)
(* count, which is <= the configured maximum, and the payment amount is    *)
(* <= the maximum x the largest unit price; with the ratio rule enabled    *)
(* the Infant count is <= the Adult count as well.                         *)
(***************************************************************************)
C25_NumericBounds ==
    (called /\ outcome = Returned) =>
        /\ invocations[2].arg <= TotalQty
        /\ TotalQty <= service.MAX_TICKETS
        /\ invocations[1].arg
               <= service.MAX_TICKETS * LargestPrice(service.TICKET_PRICES)
        /\ service.ENFORCE_INFANT_ADULT_RATIO => Infants <= Adults

\* maximum 3 with the ratio rule on: two adults and an infant, two seats
C25_Witness ==
    /\ called
    /\ outcome = Returned
    /\ service.MAX_TICKETS = 3
    /\ service.ENFORCE_INFANT_ADULT_RATIO
    /\ Adults = 2
    /\ Infants = 1
    /\ invocations[2].arg = 2

\* the list with its requests in the order p, a permutation of its indices
Permuted(requests, p) == [i \in 1..Len(requests) |-> requests[p[i]]]

\* what a caller observes of a call: what was thrown, the reason of a failed
\* validation, and the invocations made
Observed(result) ==
    [threw |-> result.outcome.threw,
     reason |-> IF result.outcome.threw = "InvalidPurchaseException"
                THEN Reason(result.outcome.message)
                ELSE result.outcome.message,
     invocations |-> result.invocations]

(***************************************************************************)
(* C26: the outcome of purchaseTickets does not depend on the order of the *)
(* requests: with the requests of the call in any other order, the call    *)
(* yields the same error reason, or the same payment amount and seat       *)
(* count; an invalid item yields InvalidRequest at any position.           *)
(***************************************************************************)
C26_OrderIndependent ==
    called =>
        \A p \in Permutations(1..Len(args)) :
            Observed(purchaseTickets(service, accountId, Permuted(args, p),
                                     BehaviourSeen))
                = Observed([outcome |-> outcome, invocations |-> invocations])

\* a child asked for before the adult: the sale goes through all the same
C26_Witness ==
    /\ called
    /\ outcome = Returned
    /\ args = <<TicketTypeRequest("CHILD", 1), TicketTypeRequest("ADULT", 1)>>
    /\ invocations[2].arg = 2

\* the service is built on the default configuration
DefaultConfiguration ==
    /\ service.constructed
    /\ service.MAX_TICKETS = DEFAULT_MAX_TICKETS
    /\ service.TICKET_PRICES =
           [INFANT |-> DEFAULT_PRICE_INFANT,
            CHILD |-> DEFAULT_PRICE_CHILD,
            ADULT |-> DEFAULT_PRICE_ADULT]
    /\ service.ENFORCE_INFANT_ADULT_RATIO

(***************************************************************************)
(* C27: under the default configuration (maximum 25, Adult 25, Child 15,   *)
(* Infant 0, ratio rule on) the configuration-driven TicketService and the *)
(* hard-coded TicketService are equivalent: for every account id and       *)
(* request list, the call made on the first has the outcome and the        *)
(* collaborator invocations, in their order, that the second yields.       *)
(***************************************************************************)
C27_HardCodedEquivalent ==
    (called /\ DefaultConfiguration) =>
        LET hardCoded ==
                HardCoded_purchaseTickets(accountId, args, BehaviourSeen)
        IN  /\ hardCoded.outcome = outcome
            /\ hardCoded.invocations = invocations

\* an adult with two infants on the default configuration: both classes
\* refuse with the ratio rule
C27_Witness ==
    /\ called
    /\ DefaultConfiguration
    /\ Adults = 1
    /\ Infants = 2
    /\ outcome = InvalidPurchaseException(MsgRatio)
    /\ HardCoded_purchaseTickets(accountId, args, "return").outcome = outcome

====
